---- MODULE Spec2Model ----
(***************************************************************************)
(* Obsidian Content Publisher: the publish pipeline of PRCreationModal and *)
(* GitHubService, the template substitution of utils/templates, the        *)
(* command / ribbon entry points of the plugin and the preset dropdown of  *)
(* the settings tab.                                                       *)
(*                                                                         *)
(* Text is modelled as a sequence of tokens.  A token is either one piece  *)
(* of literal text ("A", " ", "post/") or one whole placeholder            *)
(* ("{{title}}") or one whole replacement pattern of String.replace        *)
(* ("$&").  Regular expressions act on tokens.                             *)
(***************************************************************************)
EXTENDS Integers, Sequences, FiniteSets, TLC

VARIABLES
  settings,       \* ContentPublisherSettings of the plugin
  settingsTab,    \* the plugin's settings tab: open flag and preset dropdown
  modals,         \* the PRCreationModal objects in use, the newest last: the newest
                  \* one and the older ones a run still works for
  runs,           \* the createPR invocations that got past the isSubmitting guard,
                  \* each with the remote calls it issued: those in flight, and the
                  \* ended ones until the next invocation or the next modal
  remote,         \* the GitHub repository: branches, file commits, pull requests
  variant,        \* which of the two PRCreationModal sources is installed
  lastEntry,      \* what the last use of the command or ribbon icon did
  tpl,            \* one application of processTemplate (TemplateSpec only)
  mh              \* one call of MediaHandler.processMarkdown (MediaSpec only)

vars == <<settings, settingsTab, modals, runs, remote, variant, lastEntry, tpl, mh>>

(***************************************************************************)
(* Bounds of the model.                                                    *)
(***************************************************************************)
MaxRuns == 2        \* createPR runs one modal starts (runs are numbered from 1 up)
MaxMedia == 1       \* media files processMarkdown returns
MaxTplLen == 2      \* tokens in a template handed to processTemplate
MaxVars == 2        \* entries in the variables handed to processTemplate
MaxPieces == 2      \* pieces (references, text, line breaks) in a note's text

(***************************************************************************)
(* Sequence helpers.                                                       *)
(***************************************************************************)
Range(s) == {s[i] : i \in 1..Len(s)}

RECURSIVE Flatten(_)
Flatten(ss) == IF ss = <<>> THEN <<>> ELSE Head(ss) \o Flatten(Tail(ss))

SeqsUpTo(S, n) == UNION {[1..k -> S] : k \in 0..n}

(***************************************************************************)
(* Values of a metadata object.  Frontmatter parsing yields strings and    *)
(* arrays of strings; toString joins an array with ",".                    *)
(***************************************************************************)
Str(s) == [kind |-> "string", items |-> <<s>>]
Arr(ss) == [kind |-> "array", items |-> ss]

RECURSIVE JoinComma(_)
JoinComma(ss) ==
  IF ss = <<>> THEN <<>>
  ELSE IF Len(ss) = 1 THEN ss[1]
  ELSE ss[1] \o <<",">> \o JoinComma(Tail(ss))

\* value?.toString() || ''
ValueToString(v) == IF v.kind = "string" THEN v.items[1] ELSE JoinComma(v.items)

(***************************************************************************)
(* utils/templates: processTemplate                                        *)
(***************************************************************************)
\* the formats of {{date:FORMAT}} the model draws
DateFormats == {"YYYY-MM-DD", "YYYY"}

\* tokens matched by /\{\{date(?::([^}]+))?\}\}/
DateTokens == {"{{date}}"} \cup {"{{date:" \o f \o "}}" : f \in DateFormats}

\* the capture group of the date regex: the format, or "" when absent
DateFormatOf(tok) ==
  IF tok = "{{date}}" THEN ""
  ELSE CHOOSE f \in DateFormats : tok = "{{date:" \o f \o "}}"

\* moment().format(format) for the formats above; now is [y, m, d]
MomentFormat(now, format) ==
  IF format = "YYYY" THEN now.y ELSE now.y \o "-" \o now.m \o "-" \o now.d

\* the replacer function of the date pass
DateReplacer(now, tok) ==
  LET format == DateFormatOf(tok)
  IN  IF format # "" THEN MomentFormat(now, format)
      ELSE MomentFormat(now, "YYYY-MM-DD")

\* processed.replace(dateRegex, replacer)
ReplaceDates(s, now) ==
  [i \in 1..Len(s) |-> IF s[i] \in DateTokens THEN DateReplacer(now, s[i]) ELSE s[i]]

\* keys for which new RegExp(`\\{\\{${key}\\}\\}`, 'g') throws a SyntaxError
InvalidRegexKeys == {"a("}

\* the placeholders the regex built from a key matches: the key is spliced
\* into the pattern unescaped, so "." in a key matches any character
KeyPattern(key) ==
  IF key = "t.tle" THEN {"{{t.tle}}", "{{title}}"}
  ELSE {"{{" \o key \o "}}"}

\* String.replace with a string replacement: the replacement patterns
\* $$, $&, $` and $' are expanded for the match at position i of s
ExpandReplacement(repl, s, i) ==
  Flatten([j \in 1..Len(repl) |->
    IF repl[j] = "$$" THEN <<"$">>
    ELSE IF repl[j] = "$&" THEN <<s[i]>>
    ELSE IF repl[j] = "$`" THEN SubSeq(s, 1, i - 1)
    ELSE IF repl[j] = "$'" THEN SubSeq(s, i + 1, Len(s))
    ELSE <<repl[j]>>])

\* processed.replace(regex, replacement) with the g flag
ReplaceAll(s, pattern, repl) ==
  Flatten([i \in 1..Len(s) |->
    IF s[i] \in pattern THEN ExpandReplacement(repl, s, i) ELSE <<s[i]>>])

\* Object.entries(variables).forEach(...): one pass per entry, in order,
\* each over the output of the pass before it
RECURSIVE ReplaceVariables(_, _)
ReplaceVariables(s, entries) ==
  IF entries = <<>> THEN [threw |-> FALSE, out |-> s]
  ELSE IF Head(entries).key \in InvalidRegexKeys
       THEN [threw |-> TRUE, out |-> <<>>]
  ELSE ReplaceVariables(
         ReplaceAll(s, KeyPattern(Head(entries).key), ValueToString(Head(entries).value)),
         Tail(entries))

processTemplate(template, variables, now) ==
  ReplaceVariables(ReplaceDates(template, now), variables)

\* utils/templates: processTemplates; the first template that throws ends it
processTemplates(templates, metadata, now) ==
  LET b == processTemplate(templates.branchTemplate, metadata, now)
      c == processTemplate(templates.commitMessageTemplate, metadata, now)
      t == processTemplate(templates.prTitleTemplate, metadata, now)
      y == processTemplate(templates.prBodyTemplate, metadata, now)
      f == processTemplate(templates.filenameTemplate, metadata, now)
  IN  [threw |-> b.threw \/ c.threw \/ t.threw \/ y.threw \/ f.threw,
       branchName |-> b.out, commitMessage |-> c.out, prTitle |-> t.out,
       prBody |-> y.out, filename |-> f.out]

(***************************************************************************)
(* utils/frontmatter                                                       *)
(***************************************************************************)
\* the pieces of text made of lower-case letters and digits only: [a-z0-9]+
AlnumPieces == {"a", "b", "untitled", "note"}

\* String.toLowerCase on one piece
LowerPiece(tok) ==
  IF tok = "A" THEN "a"
  ELSE IF tok = "Untitled" THEN "untitled"
  ELSE IF tok = "Note" THEN "note"
  ELSE tok

\* .replace(/[^a-z0-9]+/g, '-'): each run of other pieces becomes one "-"
RECURSIVE DashRuns(_)
DashRuns(s) ==
  IF s = <<>> THEN <<>>
  ELSE IF Head(s) \in AlnumPieces THEN <<Head(s)>> \o DashRuns(Tail(s))
  ELSE IF Len(s) > 1 /\ s[2] \notin AlnumPieces THEN DashRuns(Tail(s))
  ELSE <<"-">> \o DashRuns(Tail(s))

\* .replace(/(^-|-$)/g, '')
TrimDashes(s) ==
  LET a == IF s # <<>> /\ Head(s) = "-" THEN Tail(s) ELSE s
  IN  IF a # <<>> /\ a[Len(a)] = "-" THEN SubSeq(a, 1, Len(a) - 1) ELSE a

generateSlug(title) ==
  TrimDashes(DashRuns([i \in 1..Len(title) |-> LowerPiece(title[i])]))

\* a note is represented by the frontmatter extractFrontmatter reads from it
extractFrontmatter(markdown) == markdown.frontmatter

HasKey(entries, key) == \E i \in 1..Len(entries) : entries[i].key = key

GetKey(entries, key) ==
  (CHOOSE e \in Range(entries) : e.key = key).value

\* obj[key] = value: an existing key keeps its place, a new key is appended
PutKey(entries, key, value) ==
  IF HasKey(entries, key)
  THEN [i \in 1..Len(entries) |->
          IF entries[i].key = key THEN [key |-> key, value |-> value] ELSE entries[i]]
  ELSE Append(entries, [key |-> key, value |-> value])

\* !obj[key]: the key is absent or its value is the empty string
Falsy(entries, key) ==
  ~HasKey(entries, key) \/ GetKey(entries, key) = Str(<<>>)

\* new Date().toISOString()
ToISOString(now) == now.y \o "-" \o now.m \o "-" \o now.d \o "T00:00:00.000Z"

createMetadata(markdown, additional, now) ==
  LET frontmatter == extractFrontmatter(markdown)
      c0 == PutKey(PutKey(PutKey(frontmatter,
                "title", Str(additional.title)),
                "description", Str(additional.description)),
                "slug", Str(additional.slug))
      c1 == IF Falsy(c0, "title")
            THEN PutKey(c0, "title", Str(<<"Untitled", " ", "Note">>)) ELSE c0
      c2 == IF Falsy(c1, "slug")
            THEN PutKey(c1, "slug", Str(generateSlug(ValueToString(GetKey(c1, "title")))))
            ELSE c1
  IN  IF Falsy(c2, "date") THEN PutKey(c2, "date", Str(<<ToISOString(now)>>)) ELSE c2

(***************************************************************************)
(* settings/settings                                                       *)
(***************************************************************************)
DefaultRepo ==
  [name |-> "my-blog", owner |-> "username", baseBranch |-> <<"main">>,
   targetPath |-> <<"content", "/", "posts">>]

DEFAULT_SETTINGS ==
  [githubToken |-> "",
   repositories |-> <<DefaultRepo>>,
   defaultRepository |-> "username/my-blog",
   branchTemplate |-> <<"post/", "{{slug}}">>,
   commitMessageTemplate |-> <<"Add post: ", "{{title}}">>,
   prTitleTemplate |-> <<"Content: ", "{{title}}">>,
   prBodyTemplate |-> <<"## New Content Submission\n\n", "{{description}}",
                        "\n\n---\n\nSubmitted via Obsidian Content Publisher">>,
   filenameTemplate |-> <<"{{date:YYYY-MM-DD}}", "-", "{{slug}}", ".md">>,
   extractFrontmatter |-> TRUE,
   media |-> [enabled |-> TRUE, targetPath |-> <<"public", "/", "images">>]]

SITE_PRESETS ==
  [nextjs |-> [targetPath |-> <<"content", "/", "posts">>,
               filenameTemplate |-> <<"{{slug}}", ".md">>],
   jekyll |-> [targetPath |-> <<"_posts">>,
               filenameTemplate |-> <<"{{date:YYYY-MM-DD}}", "-", "{{slug}}", ".md">>],
   hugo   |-> [targetPath |-> <<"content", "/", "posts">>,
               filenameTemplate |-> <<"{{slug}}", "/index.md">>]]

(***************************************************************************)
(* The inputs the environment supplies.                                    *)
(***************************************************************************)
\* repositories the user has configured: the default one, one whose target
\* path ends with a slash, one without a target path, and one whose base
\* branch has the name the branch template produces
Repositories ==
  { DefaultRepo,
    [DefaultRepo EXCEPT !.targetPath = <<"content", "/", "posts", "/">>],
    [DefaultRepo EXCEPT !.targetPath = <<>>],
    [DefaultRepo EXCEPT !.baseBranch = <<"post/", "a", "-", "b">>] }

\* tokens typed into the settings tab
Tokens == {"", "ghp_x"}

\* titles typed into the modal's title field
Titles == {<<>>, <<"A", " ", "b">>}

\* notes in the editor, each given by its frontmatter; rewritten is set on
\* the content processMarkdown returns once it replaced a reference
Notes ==
  { [frontmatter |-> <<[key |-> "title", value |-> Str(<<"A", " ", "b">>)]>>,
      rewritten |-> FALSE],
    [frontmatter |-> <<[key |-> "a(", value |-> Str(<<"b">>)]>>, rewritten |-> FALSE] }

\* the dates moment() and new Date() return
Dates == {[y |-> "2026", m |-> "11", d |-> "02"]}

\* repository paths of the media files processMarkdown returns
MediaPaths == {<<"public", "/", "images", "/", "a.png">>}

\* messages of the errors a remote call fails with
RemoteErrors == {"Network Error"}

\* the head commit of the base branch
BaseSha == "sha0"

\* the remote repository before anything is published: its base branch only
InitialRemote(repos) ==
  [branches |-> {[name |-> IF repos = <<>> THEN <<"main">> ELSE repos[1].baseBranch,
                  sha |-> BaseSha]},
   files |-> {}, pulls |-> <<>>]

(***************************************************************************)
(* Initial state: the plugin is loaded, its settings are DEFAULT_SETTINGS  *)
(* overlaid with the saved data, nothing is open, the remote repository    *)
(* holds its base branch only.                                             *)
(***************************************************************************)
NoEntry ==
  [via |-> "none", view |-> FALSE, tokenSet |-> FALSE, haveRepos |-> FALSE,
   modalOpened |-> FALSE, settingsOpened |-> FALSE, notice |-> ""]

\* processMarkdown has not been called
NoMh == [pc |-> "idle"]

NoTpl == [done |-> FALSE, template |-> <<>>, variables |-> <<>>,
          now |-> CHOOSE d \in Dates : TRUE, threw |-> FALSE, out |-> <<>>]

\* loadSettings: DEFAULT_SETTINGS overlaid with the saved data
loadSettings(token, repos, media) ==
  [DEFAULT_SETTINGS EXCEPT !.githubToken = token, !.repositories = repos,
                           !.media.enabled = media]

Init ==
  /\ \E token \in Tokens, repos \in {<<>>} \cup {<<r>> : r \in Repositories},
        media \in BOOLEAN :
       /\ settings = loadSettings(token, repos, media)
       /\ remote = InitialRemote(repos)
  /\ settingsTab = [open |-> FALSE, presetOptions |-> <<>>]
  /\ modals = <<>>
  /\ runs = <<>>
  /\ variant \in {"current", "earlier"}
  /\ lastEntry = NoEntry
  /\ tpl = NoTpl
  /\ mh = NoMh

(***************************************************************************)
(* main: the command, the ribbon icon, createPRFromCurrentNote             *)
(***************************************************************************)
ModalIsOpen == modals # <<>> /\ modals[Len(modals)].open

\* the numbers of modals constructed and of runs started so far
ModalCount == IF modals = <<>> THEN 0 ELSE modals[Len(modals)].id
RunCount == IF runs = <<>> THEN 0 ELSE runs[Len(runs)].id

InFlight(run) == run.pc # "done"
LiveRuns == SelectSeq(runs, InFlight)

\* the position in modals of the modal with this id
ModalIndex(id) == CHOOSE i \in 1..Len(modals) : modals[i].id = id

\* SettingsTab.display: the options of the preset dropdown
PresetDropdown == <<"custom", "nextjs", "jekyll", "hugo">>

\* the settings tab after activateSettingsTab
activateSettingsTab == [open |-> TRUE, presetOptions |-> PresetDropdown]

\* new PRCreationModal(app, content, settings), then open(): onOpen
NewModal(id, content, st) ==
  LET fm == IF st.extractFrontmatter THEN extractFrontmatter(content) ELSE <<>>
      title == IF ~Falsy(fm, "title") THEN ValueToString(GetKey(fm, "title")) ELSE <<>>
      description ==
        IF ~Falsy(fm, "description") THEN ValueToString(GetKey(fm, "description")) ELSE <<>>
      found == {r \in Range(st.repositories) :
                  st.defaultRepository = r.owner \o "/" \o r.name}
  IN  [id |-> id, open |-> TRUE, content |-> content,
       title |-> title, description |-> description, slug |-> generateSlug(title),
       selectedRepository |->
         IF found # {} THEN CHOOSE r \in found : TRUE
         ELSE IF Len(st.repositories) > 0 THEN st.repositories[1]
         ELSE [owner |-> "username", name |-> "repository", baseBranch |-> <<"main">>,
               targetPath |-> <<"content", "/", "posts">>],
       isSubmitting |-> FALSE, btnText |-> "Create Pull Request",
       btnDisabled |-> FALSE, dropped |-> FALSE]

\* createPRFromCurrentNote without its check of the repositories
CanOpenModalTokenOnly(st) == st.githubToken # ""

\* whether createPRFromCurrentNote gets as far as opening the modal
CanOpenModal(st) == st.githubToken # "" /\ Len(st.repositories) > 0

\* what one use of the command or the ribbon icon found and did, read off
\* the state before and after it
Entry(via, view, notice) ==
  [via |-> via, view |-> view,
   tokenSet |-> settings.githubToken # "",
   haveRepos |-> Len(settings.repositories) > 0,
   modalOpened |-> modals' # modals,
   settingsOpened |-> settingsTab'.open,
   notice |-> notice]

createPRFromCurrentNote(via, content) ==
  IF ~CanOpenModal(settings)
  THEN /\ settingsTab' = activateSettingsTab
       /\ UNCHANGED <<modals, runs>>
       /\ lastEntry' = Entry(via, TRUE,
            IF settings.githubToken = ""
            THEN "GitHub token not configured. Please set it in plugin settings."
            ELSE "No repositories configured. Please add at least one in plugin settings.")
  ELSE /\ modals' = Append(SelectSeq(modals, LAMBDA m :
                                 \E r \in 1..Len(runs) : InFlight(runs[r]) /\ runs[r].modal = m.id),
                            NewModal(ModalCount + 1, content, settings))
       /\ runs' = LiveRuns
       /\ UNCHANGED settingsTab
       /\ lastEntry' = Entry(via, TRUE, "")

\* the command and the ribbon are reachable when no overlay covers them.  A
\* further modal is constructed only while a further run can be started, and
\* only after the runs of the earlier modals have ended.
UiIdle ==
  /\ ~ModalIsOpen /\ ~settingsTab.open
  /\ ModalCount <= RunCount /\ RunCount < MaxRuns
  /\ LiveRuns = <<>>

\* 'Create GitHub PR from current note': editorCheckCallback with an editor
Command(content) ==
  /\ UiIdle
  /\ createPRFromCurrentNote("command", content)
  /\ UNCHANGED <<settings, remote, variant, tpl, mh>>

\* the ribbon icon's callback
Ribbon(view, content) ==
  /\ UiIdle
  /\ IF view
     THEN createPRFromCurrentNote("ribbon", content)
     ELSE /\ UNCHANGED <<modals, runs, settingsTab>>
          /\ lastEntry' = Entry("ribbon", FALSE, "No active Markdown file")
  /\ UNCHANGED <<settings, remote, variant, tpl, mh>>

(***************************************************************************)
(* settings/settings-tab                                                   *)
(***************************************************************************)
\* the token field's onChange
SetToken(value) ==
  /\ settingsTab.open
  /\ settings' = [settings EXCEPT !.githubToken = value]
  /\ UNCHANGED <<settingsTab, modals, runs, remote, variant, lastEntry, tpl, mh>>

\* the preset dropdown's onChange
presetOnChange(st, value) ==
  IF value # "custom" /\ (value = "nextjs" \/ value = "jekyll" \/ value = "hugo")
  THEN [st EXCEPT !.filenameTemplate = SITE_PRESETS[value].filenameTemplate]
  ELSE st

SelectPreset(value) ==
  /\ settingsTab.open
  /\ settings' = presetOnChange(settings, value)
  /\ UNCHANGED <<settingsTab, modals, runs, remote, variant, lastEntry, tpl, mh>>

\* the user leaves the settings
CloseSettings ==
  /\ settingsTab.open
  /\ settingsTab' = [settingsTab EXCEPT !.open = FALSE]
  /\ UNCHANGED <<settings, modals, runs, remote, variant, lastEntry, tpl, mh>>

\* the user opens the plugin's settings: SettingsTab.display
OpenSettings ==
  /\ ~settingsTab.open
  /\ settingsTab' = activateSettingsTab
  /\ UNCHANGED <<settings, modals, runs, remote, variant, lastEntry, tpl, mh>>

(***************************************************************************)
(* ui/modals/pr-modal: PRCreationModal                                     *)
(***************************************************************************)
\* the title field's onChange
TitleChange(value) ==
  /\ ModalIsOpen /\ ~settingsTab.open
  /\ value # modals[Len(modals)].title
  /\ modals' = [modals EXCEPT ![Len(modals)].title = value,
                              ![Len(modals)].slug = generateSlug(value)]
  /\ UNCHANGED <<settings, settingsTab, runs, remote, variant, lastEntry, tpl, mh>>

\* the user dismisses the modal: Modal.close, onClose
UserClose ==
  /\ ModalIsOpen /\ ~settingsTab.open
  /\ modals' = [modals EXCEPT ![Len(modals)].open = FALSE]
  /\ UNCHANGED <<settings, settingsTab, runs, remote, variant, lastEntry, tpl, mh>>

\* the button as createPR's catch block (current source) and finally block
\* (earlier source) leave it
ResetButton(m) ==
  [m EXCEPT !.isSubmitting = FALSE, !.btnText = "Create Pull Request",
            !.btnDisabled = FALSE]

\* createPR returns early (a missing token or title)
AfterEarlyReturn(m) == IF variant = "earlier" THEN ResetButton(m) ELSE m

\* createPR's catch block, and the earlier source's finally block after it
AfterCatch(m) == ResetButton(m)

\* this.close() after the pull request, and the earlier source's finally block
AfterSuccess(m) ==
  IF variant = "earlier" THEN ResetButton([m EXCEPT !.open = FALSE])
  ELSE [m EXCEPT !.open = FALSE]

\* new GitHubService(token): the client authenticates with the token
GitHubService(token) == [octokit |-> token]

\* GitHubService.getOctokit: hands out the service's client
getOctokit(github) == github.octokit

\* new MediaHandler(octokit, repository, targetPath)
MediaHandler(octokit, targetPath) == [octokit |-> octokit, targetPath |-> targetPath]

\* a createPR invocation that got past the guard, before its first decision
NewRun(m) ==
  [id |-> RunCount + 1, modal |-> m.id, pc |-> "done", outcome |-> "running",
   tokenAtPress |-> settings.githubToken, titleAtPress |-> m.title,
   mediaEnabled |-> FALSE, mediaThrew |-> FALSE,
   content |-> m.content, mediaFiles |-> <<>>,
   called |-> FALSE, titleAtCall |-> <<>>,
   processed |-> [branchName |-> <<>>, commitMessage |-> <<>>, prTitle |-> <<>>,
                  prBody |-> <<>>, filename |-> <<>>],
   repository |-> m.selectedRepository,
   github |-> GitHubService(settings.githubToken),
   mediaHandler |-> [octokit |-> "", targetPath |-> <<>>],
   calls |-> <<>>, baseSha |-> "", error |-> "", notice |-> "", prUrl |-> "", opened |-> ""]

\* the Error createPR's catch block receives, and its Notice
Caught(run, message) ==
  [run EXCEPT !.pc = "done", !.outcome = "failed", !.error = message,
              !.notice = "Failed to create PR: " \o message]

\* createPR from 'Prepare metadata' to the call of createPullRequest, which
\* runs up to its first await: createMetadata, processTemplates, then getRef
\* is sent.  A template that throws lands in createPR's catch block.
Publish(run, m, now) ==
  LET metadata == createMetadata(run.content,
                    [title |-> m.title, description |-> m.description, slug |-> m.slug],
                    now)
      processed == processTemplates(
                    [branchTemplate |-> settings.branchTemplate,
                     commitMessageTemplate |-> settings.commitMessageTemplate,
                     prTitleTemplate |-> settings.prTitleTemplate,
                     prBodyTemplate |-> settings.prBodyTemplate,
                     filenameTemplate |-> settings.filenameTemplate],
                    metadata, now)
  IN  IF processed.threw
      THEN Caught(run, "Invalid regular expression")
      ELSE [run EXCEPT !.pc = "getRef", !.called = TRUE, !.titleAtCall = m.title,
                       !.processed = [branchName |-> processed.branchName,
                                      commitMessage |-> processed.commitMessage,
                                      prTitle |-> processed.prTitle,
                                      prBody |-> processed.prBody,
                                      filename |-> processed.filename]]

\* the modal after its run r moved on to run record run
ModalAfter(m, run) ==
  IF run.outcome = "failed" THEN AfterCatch(m)
  ELSE IF run.outcome = "created" THEN AfterSuccess(m)
  ELSE m

\* createPR without its guard
GuardedNever(m) == FALSE

\* createPR's guard
Guarded(m) == m.isSubmitting

\* the checks at the head of createPR's try block: the outcome they return
\* with, or "running" when both pass
EarlyReturn(st, m) ==
  IF st.githubToken = "" THEN "noToken"
  ELSE IF m.title = <<>> THEN "noTitle"
  ELSE "running"

\* createPR, from the button's onClick to its first await or its return
createPR(m, now) ==
  LET m1 == [m EXCEPT !.isSubmitting = TRUE, !.btnText = "Creating PR...",
                      !.btnDisabled = TRUE]
      run == NewRun(m)
      early == EarlyReturn(settings, m)
  IN  IF early = "noToken"
      THEN [modal |-> AfterEarlyReturn(m1),
            run |-> [run EXCEPT !.outcome = "noToken",
                       !.notice = "GitHub token not configured. Please set it in plugin settings."]]
      ELSE IF early = "noTitle"
      THEN [modal |-> AfterEarlyReturn(m1),
            run |-> [run EXCEPT !.outcome = "noTitle", !.notice = "Title is required"]]
      ELSE IF variant = "current" /\ settings.media.enabled
      THEN [modal |-> [m1 EXCEPT !.btnText = "Processing media..."],
            run |-> [run EXCEPT !.pc = "media", !.mediaEnabled = TRUE,
                       !.mediaHandler = MediaHandler(getOctokit(run.github),
                                                     settings.media.targetPath)]]
      ELSE LET r2 == Publish(run, m1, now)
           IN  [modal |-> ModalAfter(m1, r2), run |-> r2]

\* a press of 'Create Pull Request'
Press ==
  /\ ModalIsOpen /\ ~settingsTab.open
  /\ LET k == Len(modals)
     IN  IF Guarded(modals[k])
         THEN /\ modals' = [modals EXCEPT ![k].dropped = TRUE]
              /\ UNCHANGED runs
         ELSE /\ RunCount < MaxRuns
              /\ \E now \in Dates :
                   LET res == createPR(modals[k], now)
                   IN  /\ modals' = [modals EXCEPT ![k] = res.modal]
                       /\ runs' = Append(LiveRuns, res.run)
  /\ UNCHANGED <<settings, settingsTab, remote, variant, lastEntry, tpl, mh>>

\* what 'await mediaHandler.processMarkdown(...)' can end with: a result with
\* up to MaxMedia media files, or an exception
ProcessMarkdownResults(content) ==
  { [threw |-> FALSE,
     content |-> [content EXCEPT !.rewritten = (mf # <<>>)],
     mediaFiles |-> [i \in 1..Len(mf) |-> [targetPath |-> mf[i], content |-> "base64"]]]
      : mf \in SeqsUpTo(MediaPaths, MaxMedia) }
  \cup {[threw |-> TRUE, content |-> content, mediaFiles |-> <<>>]}

\* the button text after processMarkdown returned
MediaButtonText(mediaFiles) ==
  IF Len(mediaFiles) > 0
  THEN "Creating PR with " \o ToString(Len(mediaFiles)) \o " media files..."
  ELSE "Creating PR..."

\* createPR resumes after 'await mediaHandler.processMarkdown(...)'
MediaDone(r) ==
  /\ r \in 1..Len(runs)
  /\ runs[r].pc = "media"
  /\ \E res \in ProcessMarkdownResults(runs[r].content), now \in Dates :
       LET k == ModalIndex(runs[r].modal)
           m1 == IF res.threw THEN modals[k]
                 ELSE [modals[k] EXCEPT !.btnText = MediaButtonText(res.mediaFiles)]
           r1 == IF res.threw THEN [runs[r] EXCEPT !.mediaThrew = TRUE]
                 ELSE [runs[r] EXCEPT !.content = res.content,
                                      !.mediaFiles = res.mediaFiles]
           r2 == Publish(r1, m1, now)
       IN  /\ runs' = [runs EXCEPT ![r] = r2]
           /\ modals' = [modals EXCEPT ![k] = ModalAfter(m1, r2)]
  /\ UNCHANGED <<settings, settingsTab, remote, variant, lastEntry, tpl, mh>>

(***************************************************************************)
(* services/github-service: GitHubService.createPullRequest                *)
(***************************************************************************)
\* a path built without the replace
KeepSlashes(s) == s

\* .replace(/\/+/g, '/')
RECURSIVE CollapseSlashes(_)
CollapseSlashes(s) ==
  IF s = <<>> THEN <<>>
  ELSE IF Head(s) = "/" /\ Len(s) > 1 /\ s[2] = "/" THEN CollapseSlashes(Tail(s))
  ELSE <<Head(s)>> \o CollapseSlashes(Tail(s))

filePath(repository, filename) ==
  IF repository.targetPath # <<>>
  THEN CollapseSlashes(repository.targetPath \o <<"/">> \o filename)
  ELSE filename

BranchNames == {b.name : b \in remote.branches}

\* one remote call: message is the error's message when the call failed
Call(r, op, ok, branch, sha, path) ==
  [run |-> r, op |-> op, ok |-> ok, branch |-> branch, sha |-> sha, path |-> path,
   message |-> ""]

\* a catch block that throws the error on as it came
RethrowBare(message) == message

\* the catch block of createPullRequest rethrows; createPR's catch block
\* receives the new Error
Rethrow(message) == "Failed to create PR: " \o message

\* a remote call of run r fails with message: nothing changes remotely
CallFails(r, call, message) ==
  LET r2 == Caught([runs[r] EXCEPT !.calls = Append(@, [call EXCEPT !.message = message])],
                   Rethrow(message))
      k == ModalIndex(runs[r].modal)
  IN  /\ runs' = [runs EXCEPT ![r] = r2]
      /\ modals' = [modals EXCEPT ![k] = ModalAfter(modals[k], r2)]
      /\ UNCHANGED remote

\* createPullRequest without its commit of the content file
NextStepSkipsCommit(pc) ==
  IF pc = "getRef" THEN "createRef"
  ELSE IF pc = "createRef" THEN "createPull"
  ELSE "done"

\* the step createPullRequest takes after the step pc succeeded
NextStep(pc) ==
  IF pc = "getRef" THEN "createRef"
  ELSE IF pc = "createRef" THEN "putFile"
  ELSE IF pc = "putFile" THEN "createPull"
  ELSE "done"

\* 1. octokit.git.getRef on heads/<baseBranch>
GetRef(r) ==
  /\ r \in 1..Len(runs)
  /\ runs[r].pc = "getRef"
  /\ LET base == runs[r].repository.baseBranch
     IN  \E ok \in BOOLEAN, message \in RemoteErrors :
           IF ok /\ base \in BranchNames
           THEN LET sha == (CHOOSE b \in remote.branches : b.name = base).sha
                IN  /\ runs' = [runs EXCEPT ![r].pc = NextStep("getRef"), ![r].baseSha = sha,
                                             ![r].calls = Append(@, Call(runs[r].id, "getRef", TRUE, base, sha, <<>>))]
                    /\ UNCHANGED <<modals, remote>>
           ELSE CallFails(r, Call(runs[r].id, "getRef", FALSE, base, "", <<>>), message)
  /\ UNCHANGED <<settings, settingsTab, variant, lastEntry, tpl, mh>>

\* 2. octokit.git.createRef of refs/heads/<branchName> at baseSha; the remote
\* refuses a reference that exists
CreateRef(r) ==
  /\ r \in 1..Len(runs)
  /\ runs[r].pc = "createRef"
  /\ LET branch == runs[r].processed.branchName
         sha == runs[r].baseSha
     IN  IF branch \in BranchNames
         THEN CallFails(r, Call(runs[r].id, "createRef", FALSE, branch, sha, <<>>),
                        "Reference already exists")
         ELSE \E ok \in BOOLEAN, message \in RemoteErrors :
                IF ok
                THEN /\ remote' = [remote EXCEPT
                                     !.branches = @ \cup {[name |-> branch, sha |-> sha]}]
                     /\ runs' = [runs EXCEPT ![r].pc = NextStep("createRef"),
                                              ![r].calls = Append(@, Call(runs[r].id, "createRef", TRUE, branch, sha, <<>>))]
                     /\ UNCHANGED modals
                ELSE CallFails(r, Call(runs[r].id, "createRef", FALSE, branch, sha, <<>>), message)
  /\ UNCHANGED <<settings, settingsTab, variant, lastEntry, tpl, mh>>

\* 3. octokit.repos.createOrUpdateFileContents of the content file
PutFile(r) ==
  /\ r \in 1..Len(runs)
  /\ runs[r].pc = "putFile"
  /\ LET branch == runs[r].processed.branchName
         path == filePath(runs[r].repository, runs[r].processed.filename)
     IN  \E ok \in BOOLEAN, message \in RemoteErrors :
           IF ok
           THEN /\ remote' = [remote EXCEPT
                                !.files = @ \cup {[branch |-> branch, path |-> path]}]
                /\ runs' = [runs EXCEPT ![r].pc = NextStep("putFile"),
                                         ![r].calls = Append(@, Call(runs[r].id, "putFile", TRUE, branch, "", path))]
                /\ UNCHANGED modals
           ELSE CallFails(r, Call(runs[r].id, "putFile", FALSE, branch, "", path), message)
  /\ UNCHANGED <<settings, settingsTab, variant, lastEntry, tpl, mh>>

\* the html_url the remote gives its n-th pull request
PullUrl(n) == "https://github.com/pull/" \o ToString(n)

\* what createPullRequest returns from the response of pulls.create
ReturnedUrl(prData) == prData.html_url

\* createPR's Notice after createPullRequest returned
SuccessNotice(run) ==
  IF variant = "current"
  THEN "Pull request created successfully with "
         \o ToString(Len(run.mediaFiles)) \o " media files!"
  ELSE "Pull request created successfully!"

\* 4. octokit.pulls.create (modal and run tell whose call opened it); on success createPullRequest returns and createPR
\* shows its Notice, opens the URL and closes the modal
CreatePull(r) ==
  /\ r \in 1..Len(runs)
  /\ runs[r].pc = "createPull"
  /\ LET head == runs[r].processed.branchName
         base == runs[r].repository.baseBranch
         k == ModalIndex(runs[r].modal)
     IN  \E ok \in BOOLEAN, message \in RemoteErrors :
           IF ok
           THEN LET prData == [html_url |-> PullUrl(Len(remote.pulls) + 1),
                               head |-> head, base |-> base,
                               title |-> runs[r].processed.prTitle,
                               modal |-> runs[r].modal, run |-> runs[r].id]
                    r2 == [runs[r] EXCEPT
                             !.pc = NextStep("createPull"), !.outcome = "created",
                             !.calls = Append(@, Call(runs[r].id, "createPull", TRUE, head, "", <<>>)),
                             !.prUrl = ReturnedUrl(prData),
                             !.opened = ReturnedUrl(prData),
                             !.notice = SuccessNotice(runs[r])]
                IN  /\ remote' = [remote EXCEPT !.pulls = Append(@, prData)]
                    /\ runs' = [runs EXCEPT ![r] = r2]
                    /\ modals' = [modals EXCEPT ![k] = ModalAfter(modals[k], r2)]
           ELSE CallFails(r, Call(runs[r].id, "createPull", FALSE, head, "", <<>>), message)
  /\ UNCHANGED <<settings, settingsTab, variant, lastEntry, tpl, mh>>

(***************************************************************************)
(* Publishing, with the settings as loaded: the command hands a note to    *)
(* the modal, the user edits the title, presses the button or leaves the   *)
(* modal, and the runs take their steps against the remote repository.     *)
(***************************************************************************)
Next ==
  \/ \E content \in Notes : Command(content)
  \/ \E value \in Titles : TitleChange(value)
  \/ UserClose
  \/ Press
  \/ \E r \in 1..Len(runs) : MediaDone(r)
  \/ \E r \in 1..Len(runs) : GetRef(r)
  \/ \E r \in 1..Len(runs) : CreateRef(r)
  \/ \E r \in 1..Len(runs) : PutFile(r)
  \/ \E r \in 1..Len(runs) : CreatePull(r)

Spec == Init /\ [][Next]_vars

(***************************************************************************)
(* The user interface, up to the first remote call: the command, the       *)
(* ribbon icon, the settings tab, the modal's fields and button, and       *)
(* createPR as far as its call of createPullRequest.                       *)
(***************************************************************************)
UiNext ==
  \/ \E content \in Notes : Command(content)
  \/ \E view \in BOOLEAN, content \in Notes : Ribbon(view, content)
  \/ OpenSettings
  \/ \E value \in Tokens : SetToken(value)
  \/ \E value \in Range(settingsTab.presetOptions) : SelectPreset(value)
  \/ CloseSettings
  \/ \E value \in Titles : TitleChange(value)
  \/ UserClose
  \/ Press
  \/ \E r \in 1..Len(runs) : MediaDone(r)

UiSpec == Init /\ [][UiNext]_vars

(***************************************************************************)
(* processTemplate on its own: a template and a variables object are       *)
(* drawn, and the function is applied to them.                             *)
(***************************************************************************)
\* the pieces templates are made of: literal text, the documented
\* placeholders, and a placeholder no metadata carries a key for
TemplateTokens ==
  {"x", "{{title}}", "{{slug}}", "{{description}}", "{{tags}}",
   "{{date}}", "{{date:YYYY}}", "{{author}}"}

\* the entries variables objects are made of
TemplateEntries ==
  { [key |-> "title", value |-> Str(<<"T">>)],
    [key |-> "title", value |-> Str(<<"{{slug}}">>)],
    [key |-> "title", value |-> Str(<<"$&">>)],
    [key |-> "slug", value |-> Str(<<"s">>)],
    [key |-> "description", value |-> Str(<<>>)],
    [key |-> "tags", value |-> Arr(<<<<"p">>, <<"q">>>>)],
    [key |-> "date", value |-> Str(<<"2020-01-01">>)],
    [key |-> "t.tle", value |-> Str(<<"w">>)],
    [key |-> "a(", value |-> Str(<<"v">>)] }

\* objects hold a key once; Object.entries lists them in insertion order
TemplateVariables ==
  { v \in SeqsUpTo(TemplateEntries, MaxVars) :
      \A i, j \in 1..Len(v) : i # j => v[i].key # v[j].key }

TemplateInit ==
  /\ settings = loadSettings("ghp_x", <<DefaultRepo>>, TRUE)
  /\ settingsTab = [open |-> FALSE, presetOptions |-> <<>>]
  /\ modals = <<>>
  /\ runs = <<>>
  /\ remote = InitialRemote(<<DefaultRepo>>)
  /\ variant = "current"
  /\ lastEntry = NoEntry
  /\ mh = NoMh
  /\ \E template \in SeqsUpTo(TemplateTokens, MaxTplLen),
        variables \in TemplateVariables, now \in Dates :
       tpl = [done |-> FALSE, template |-> template, variables |-> variables,
              now |-> now, threw |-> FALSE, out |-> <<>>]

\* processTemplate(template, variables) is called
ApplyTemplate ==
  /\ ~tpl.done
  /\ LET res == processTemplate(tpl.template, tpl.variables, tpl.now)
     IN  tpl' = [tpl EXCEPT !.done = TRUE, !.threw = res.threw, !.out = res.out]
  /\ UNCHANGED <<settings, settingsTab, modals, runs, remote, variant, lastEntry, mh>>

TemplateNext == ApplyTemplate

TemplateSpec == TemplateInit /\ [][TemplateNext]_vars

(***************************************************************************)
(* The claims about the publish pipeline, checked under Spec.              *)
(***************************************************************************)
\* C1: createPullRequest makes its remote calls in the order getRef on the
\* base branch, createRef of the new branch at the sha getRef returned, the
\* commit of the content file on the new branch, pulls.create with the new
\* branch as head and the base branch as base; a call is made only after
\* the calls before it succeeded, so a pull request exists only after the
\* content commit; and the URL createPR gets back is that pull request's.
C1_CallOrder ==
  \A i \in 1..Len(runs) :
    LET run == runs[i]
        c == run.calls
        order == <<"getRef", "createRef", "putFile", "createPull">>
        mine == SelectSeq(remote.pulls,
                          LAMBDA pr : pr.modal = run.modal /\ pr.run = run.id)
    IN  /\ Len(c) <= 4
        /\ \A j \in 1..Len(c) : c[j].op = order[j] /\ (j < Len(c) => c[j].ok)
        /\ Len(c) >= 1 => c[1].branch = run.repository.baseBranch
        /\ Len(c) >= 2 => c[2].sha = c[1].sha
        /\ \A j \in 2..Len(c) : c[j].branch = run.processed.branchName
        /\ Len(mine) <= 1
        /\ run.outcome = "created" <=> Len(mine) = 1
        /\ \A k \in 1..Len(mine) :
             /\ Len(c) = 4 /\ c[3].ok /\ c[4].ok
             /\ mine[k].head = run.processed.branchName
             /\ mine[k].base = run.repository.baseBranch
             /\ mine[k].head \in BranchNames
             /\ [branch |-> mine[k].head, path |-> c[3].path] \in remote.files
             /\ run.prUrl = mine[k].html_url
             /\ run.opened = mine[k].html_url

\* C1's case: a run went through all four calls and opened its pull request
C1_Witness ==
  \E i \in 1..Len(runs) :
    /\ runs[i].outcome = "created"
    /\ Len(runs[i].calls) = 4
    /\ \E n \in 1..Len(remote.pulls) : remote.pulls[n].html_url = runs[i].prUrl

\* C2: every media file processMarkdown returned is on the new branch by
\* the time the pull request of its run is open.
C2_MediaUploaded ==
  \A i \in 1..Len(runs) :
    runs[i].outcome = "created" =>
      \A f \in 1..Len(runs[i].mediaFiles) :
        [branch |-> runs[i].processed.branchName,
         path |-> runs[i].mediaFiles[f].targetPath] \in remote.files

\* C3: a createPullRequest call whose branch an earlier call created does
\* not fail at the creation of the branch.
C3_ExistingBranchTolerated ==
  \A i \in 1..Len(runs) :
    \A j \in 1..Len(runs[i].calls) :
      LET call == runs[i].calls[j]
      IN  /\ call.op = "createRef" /\ call.message = "Reference already exists"
          /\ call.branch # runs[i].repository.baseBranch
          => call.ok

\* C4: when a remote call fails, it is the last call of its run, the run
\* has ended without a pull request, and the error createPR receives is
\* 'Failed to create PR: ' followed by the message of the call's error.
C4_FailureStopsRun ==
  \A i \in 1..Len(runs) :
    \A j \in 1..Len(runs[i].calls) :
      LET run == runs[i]
          call == run.calls[j]
      IN  ~call.ok =>
            /\ j = Len(run.calls)
            /\ run.pc = "done" /\ run.outcome = "failed"
            /\ run.prUrl = ""
            /\ \A n \in 1..Len(remote.pulls) :
                 ~(remote.pulls[n].modal = run.modal /\ remote.pulls[n].run = run.id)
            /\ run.error = "Failed to create PR: " \o call.message

\* C4's case: a call failed after calls before it had succeeded
C4_Witness ==
  \E i \in 1..Len(runs) :
    /\ Len(runs[i].calls) >= 2
    /\ ~runs[i].calls[Len(runs[i].calls)].ok
    /\ runs[i].error = "Failed to create PR: Network Error"

\* C5: a modal has at most one createPR run in flight: a press made while
\* isSubmitting is set starts nothing.
C5_OneRunPerModal ==
  \A i, j \in 1..Len(runs) :
    InFlight(runs[i]) /\ InFlight(runs[j]) /\ runs[i].modal = runs[j].modal => i = j

\* C5's case: createPR was called again while the modal's run was in flight
C5_Witness ==
  \E k \in 1..Len(modals) :
    /\ modals[k].dropped /\ modals[k].isSubmitting
    /\ \E i \in 1..Len(runs) : InFlight(runs[i]) /\ runs[i].modal = modals[k].id

\* C6: a press made with a token, a non-empty title and a repository, none
\* of whose remote calls fails, ends with exactly one pull request opened
\* for it and its modal closed.
C6_OnePressOnePR ==
  \A i \in 1..Len(runs) :
    LET run == runs[i]
    IN  /\ run.pc = "done"
        /\ run.tokenAtPress # "" /\ run.titleAtPress # <<>>
        /\ Len(settings.repositories) > 0
        /\ \A j \in 1..Len(run.calls) : run.calls[j].ok
        => /\ run.outcome = "created"
           /\ Cardinality({n \in 1..Len(remote.pulls) :
                 remote.pulls[n].modal = run.modal /\ remote.pulls[n].run = run.id}) = 1
           /\ ~modals[ModalIndex(run.modal)].open

(***************************************************************************)
(* The claim about processTemplate, checked under TemplateSpec.            *)
(***************************************************************************)
\* C7: processTemplate does not throw, and its output is the template with
\* {{date}} and {{date:FORMAT}} replaced by the current date in that format
\* (YYYY-MM-DD by default), {{title}}, {{slug}}, {{description}} and
\* {{tags}} replaced by the values the metadata holds for them, and every
\* other piece as it was.
C7_TemplateSubstitution ==
  tpl.done =>
    /\ ~tpl.threw
    /\ tpl.out = Flatten([i \in 1..Len(tpl.template) |->
         LET tok == tpl.template[i]
         IN  IF tok \in DateTokens
             THEN <<MomentFormat(tpl.now,
                      IF tok = "{{date}}" THEN "YYYY-MM-DD" ELSE DateFormatOf(tok))>>
             ELSE IF \E key \in {"title", "slug", "description", "tags"} :
                       tok = "{{" \o key \o "}}" /\ HasKey(tpl.variables, key)
             THEN ValueToString(GetKey(tpl.variables,
                    CHOOSE key \in {"title", "slug", "description", "tags"} :
                      tok = "{{" \o key \o "}}"))
             ELSE <<tok>>])

(***************************************************************************)
(* The claims about the user interface, checked under UiSpec.              *)
(***************************************************************************)
\* C8, as stated: the command and the ribbon icon open the modal only with
\* a token and a repository configured, and otherwise open the settings tab
\* and no modal.
C8_EntryAsStated ==
  lastEntry.via # "none" =>
    /\ lastEntry.modalOpened => lastEntry.tokenSet /\ lastEntry.haveRepos
    /\ ~(lastEntry.tokenSet /\ lastEntry.haveRepos) =>
         ~lastEntry.modalOpened /\ lastEntry.settingsOpened

\* C8, corrected: the modal is opened only with a token and a repository
\* configured; used on a Markdown note without one of them, the command and
\* the ribbon icon open the settings tab and no modal; the ribbon icon used
\* with no Markdown note active opens neither.
C8_EntryGate ==
  lastEntry.via # "none" =>
    /\ lastEntry.modalOpened => lastEntry.tokenSet /\ lastEntry.haveRepos
    /\ lastEntry.view /\ ~(lastEntry.tokenSet /\ lastEntry.haveRepos) =>
         ~lastEntry.modalOpened /\ lastEntry.settingsOpened
    /\ lastEntry.view /\ lastEntry.tokenSet /\ lastEntry.haveRepos =>
         lastEntry.modalOpened /\ ~lastEntry.settingsOpened
    /\ ~lastEntry.view => ~lastEntry.modalOpened /\ ~lastEntry.settingsOpened

\* C8's case: the command or the icon was used on a note with a token but
\* no repository, and the settings tab came up instead of the modal
C8_Witness ==
  /\ lastEntry.via # "none" /\ lastEntry.view
  /\ lastEntry.tokenSet /\ ~lastEntry.haveRepos
  /\ lastEntry.settingsOpened /\ settingsTab.open

\* C9: whenever createPR has called createPullRequest, the title field and
\* the GitHub token were non-empty at the call.
C9_NoCallWithoutTitleOrToken ==
  \A i \in 1..Len(runs) :
    runs[i].called =>
      /\ runs[i].titleAtCall # <<>>
      /\ runs[i].github.octokit # ""

\* C10: the preset dropdown offers NextJS, Jekyll, Hugo and Gatsby, and
\* choosing one sets filenameTemplate to the preset's.
C10_FourPresets ==
  settingsTab.open =>
    \A preset \in {"nextjs", "jekyll", "hugo", "gatsby"} :
      /\ preset \in Range(settingsTab.presetOptions)
      /\ preset \in DOMAIN SITE_PRESETS
      /\ presetOnChange(settings, preset).filenameTemplate
           = SITE_PRESETS[preset].filenameTemplate

(***************************************************************************)
(* Further claims about createPR and createPullRequest, under Spec.        *)
(***************************************************************************)
\* C11: once a createPR run has ended without opening a pull request, its
\* modal is idle again: isSubmitting is false and the submit button is
\* enabled and labelled 'Create Pull Request'.
C11_IdleAfterFailure ==
  \A i \in 1..Len(runs) :
    runs[i].pc = "done" /\ runs[i].outcome # "created" =>
      LET m == modals[ModalIndex(runs[i].modal)]
      IN  /\ ~m.isSubmitting
          /\ ~m.btnDisabled
          /\ m.btnText = "Create Pull Request"

\* C12: createPullRequest commits to the new branch only: every file commit
\* it makes is on the branch named branchName, which is not the base
\* branch, at targetPath/filename with runs of '/' collapsed to one (plain
\* filename when targetPath is empty); the base branch is read and stays at
\* the commit it was at.
C12_CommitsOnlyToNewBranch ==
  /\ \A i \in 1..Len(runs) :
       \A j \in 1..Len(runs[i].calls) :
         LET run == runs[i]
             call == run.calls[j]
             joined == run.repository.targetPath \o <<"/">> \o run.processed.filename
             NotSlash(tok) == tok # "/"
         IN  call.op = "putFile" =>
               /\ call.branch = run.processed.branchName
               /\ call.branch # run.repository.baseBranch
               /\ IF run.repository.targetPath = <<>>
                  THEN call.path = run.processed.filename
                  ELSE /\ SelectSeq(call.path, NotSlash) = SelectSeq(joined, NotSlash)
                       /\ \A k \in 1..Len(call.path) - 1 :
                            ~(call.path[k] = "/" /\ call.path[k + 1] = "/")
                       /\ \A k \in 1..Len(call.path) - 1 :
                            call.path[k + 1] = "/" =>
                              \E n \in 1..Len(joined) - 1 :
                                joined[n] = call.path[k] /\ joined[n + 1] = "/"
  /\ \A f \in remote.files :
       \A r \in Range(settings.repositories) : f.branch # r.baseBranch
  /\ \A r \in Range(settings.repositories) :
       {b \in remote.branches : b.name = r.baseBranch}
         = {[name |-> r.baseBranch, sha |-> BaseSha]}

\* C12's case: the content file was committed for a repository whose target
\* path ends with a slash
C12_Witness ==
  \E i \in 1..Len(runs) :
    /\ Len(runs[i].calls) >= 3 /\ runs[i].calls[3].ok
    /\ runs[i].repository.targetPath = <<"content", "/", "posts", "/">>
    /\ [branch |-> runs[i].processed.branchName, path |-> runs[i].calls[3].path]
         \in remote.files

\* C13: a createPR run whose processMarkdown threw has gone on with the
\* note's original content and no media files, and has called
\* createPullRequest.
C13_MediaFailureTolerated ==
  \A i \in 1..Len(runs) :
    runs[i].mediaThrew =>
      /\ runs[i].content = modals[ModalIndex(runs[i].modal)].content
      /\ runs[i].mediaFiles = <<>>
      /\ runs[i].called

(***************************************************************************)
(* services/media-handler: MediaHandler.  Note text is a sequence of       *)
(* tokens: the characters the regular expressions look for ("!", "[", "]", *)
(* "(", ")", the line break), the fixed parts of an img tag, and words     *)
(* that hold none of these characters (paths, alt texts, plain text).      *)
(***************************************************************************)
\* the text of a run of tokens
RECURSIVE Concat(_)
Concat(toks) == IF toks = <<>> THEN "" ELSE Head(toks) \o Concat(Tail(toks))

\* the smallest element of a non-empty set of numbers
Least(S) == CHOOSE x \in S : \A y \in S : x <= y

\* '.' of a regular expression matches everything but a line break
NoLineBreak(c, from, to) == \A k \in from..to : c[k] # "\n"

\* tokens with a double quote in them, which [^">] does not match
QuoteTokens == {" src=\"", " alt=\"", "\""}

\* path.basename(p) and path.basename(p, path.extname(p)) of the paths drawn
Basename(p) ==
  IF p \in {"a.png", "img/a.png", "notes/a.png"} THEN "a.png"
  ELSE IF p = "b.png" THEN "b.png"
  ELSE IF p \in {"https://x/c.png", "http://x/c.png"} THEN "c.png"
  ELSE p

Stem(p) ==
  IF Basename(p) = "a.png" THEN "a"
  ELSE IF Basename(p) = "b.png" THEN "b"
  ELSE IF Basename(p) = "c.png" THEN "c"
  ELSE p

NoMatch == [ok |-> FALSE, end |-> 0, path |-> "", alt |-> ""]

\* /!\[\[(.*?)\]\]/ tried at position i: the lazy group ends at the first "]]"
ObsidianMatchAt(c, i) ==
  IF i + 2 <= Len(c) /\ c[i] = "!" /\ c[i + 1] = "[" /\ c[i + 2] = "["
  THEN LET ends == {j \in (i + 3)..(Len(c) - 1) :
                      c[j] = "]" /\ c[j + 1] = "]" /\ NoLineBreak(c, i + 3, j - 1)}
       IN  IF ends = {} THEN NoMatch
           ELSE LET j == Least(ends)
                    p == Concat(SubSeq(c, i + 3, j - 1))
                IN  [ok |-> TRUE, end |-> j + 1, path |-> p, alt |-> Stem(p)]
  ELSE NoMatch

\* /!\[(.*?)\]\((.*?)\)/ tried at position i: the first lazy group grows until
\* "](" follows and the rest can match, the second ends at the first ")"
MarkdownMatchAt(c, i) ==
  IF i + 1 <= Len(c) /\ c[i] = "!" /\ c[i + 1] = "["
  THEN LET Closes(j) == {k \in (j + 2)..Len(c) :
                           c[k] = ")" /\ NoLineBreak(c, j + 2, k - 1)}
           mids == {j \in (i + 2)..(Len(c) - 1) :
                      /\ c[j] = "]" /\ c[j + 1] = "("
                      /\ NoLineBreak(c, i + 2, j - 1)
                      /\ Closes(j) # {}}
       IN  IF mids = {} THEN NoMatch
           ELSE LET j == Least(mids)
                    k == Least(Closes(j))
                IN  [ok |-> TRUE, end |-> k,
                     path |-> Concat(SubSeq(c, j + 2, k - 1)),
                     alt |-> Concat(SubSeq(c, i + 2, j - 1))]
  ELSE NoMatch

\* /<img[^>]+src="([^">]+)"[^>]*alt="([^">]*)"[^>]*>/ tried at position i: the
\* whole match lies before the first ">" after position i
ImgMatchAt(c, i) ==
  IF i <= Len(c) /\ c[i] = "<img" /\ \E e \in (i + 1)..Len(c) : c[e] = ">"
  THEN LET e == Least({x \in (i + 1)..Len(c) : c[x] = ">"})
           Plain(from, to) == \A k \in from..to : c[k] \notin QuoteTokens
           shapes == {sh \in ((i + 1)..e) \X ((i + 1)..e) \X ((i + 1)..e) \X ((i + 1)..e) :
                        /\ sh[1] < sh[2] /\ sh[2] < sh[3] /\ sh[3] < sh[4] /\ sh[4] < e
                        /\ c[sh[1]] = " src=\"" /\ c[sh[2]] = "\""
                        /\ c[sh[3]] = " alt=\"" /\ c[sh[4]] = "\""
                        /\ sh[1] + 1 < sh[2]
                        /\ Plain(sh[1] + 1, sh[2] - 1)
                        /\ Plain(sh[3] + 1, sh[4] - 1)}
       IN  IF shapes = {} THEN NoMatch
           ELSE LET sh == CHOOSE x \in shapes :
                            \A y \in shapes :
                              y[1] < x[1] \/ (y[1] = x[1] /\ y[3] <= x[3])
                IN  [ok |-> TRUE, end |-> e,
                     path |-> Concat(SubSeq(c, sh[1] + 1, sh[2] - 1)),
                     alt |-> Concat(SubSeq(c, sh[3] + 1, sh[4] - 1))]
  ELSE NoMatch

MatchAt(kind, c, i) ==
  IF kind = "obsidian" THEN ObsidianMatchAt(c, i)
  ELSE IF kind = "markdown" THEN MarkdownMatchAt(c, i)
  ELSE ImgMatchAt(c, i)

\* while ((match = regex.exec(content)) !== null): the matches of a regex
\* with the g flag, left to right, each search starting after the last match;
\* via tells which of the three loops pushed the reference
RECURSIVE ExecAll(_, _, _)
ExecAll(kind, c, from) ==
  LET starts == {i \in from..Len(c) : MatchAt(kind, c, i).ok}
  IN  IF starts = {} THEN <<>>
      ELSE LET i == Least(starts)
               m == MatchAt(kind, c, i)
           IN  <<[original |-> SubSeq(c, i, m.end), path |-> m.path, alt |-> m.alt,
                   via |-> kind]>>
                 \o ExecAll(kind, c, m.end + 1)

extractMediaReferences(content) ==
  ExecAll("obsidian", content, 1) \o ExecAll("markdown", content, 1)
    \o ExecAll("img", content, 1)

\* no path taken for an external one
IsExternalNever(p) == FALSE

\* ref.path.startsWith('http://') || ref.path.startsWith('https://')
IsExternal(p) == p \in {"https://x/c.png", "http://x/c.png"}

\* ref.original.startsWith('![['), '![' and '<img'
StartsWithEmbed(original) ==
  Len(original) >= 3 /\ SubSeq(original, 1, 3) = <<"!", "[", "[">>

StartsWithImage(original) ==
  Len(original) >= 2 /\ SubSeq(original, 1, 2) = <<"!", "[">>

StartsWithImg(original) == Len(original) >= 1 /\ original[1] = "<img"

\* no file
NoFile == ""

\* allFiles.find(file => file.name === name), and matchingFiles[0]
FirstNamed(vault, name) ==
  LET at == {i \in 1..Len(vault) : Basename(vault[i]) = name}
  IN  IF at = {} THEN NoFile ELSE vault[Least(at)]

\* vault.getAbstractFileByPath(p)
FileAtPath(vault, p) == IF p \in Range(vault) THEN p ELSE NoFile

\* the four strategies, each on its own: the file it finds, or NoFile; folder
\* is the path of the active file's folder, "none" without an active file
Strategy(n, ref, vault, folder) ==
  IF n = 1
  THEN IF StartsWithEmbed(ref.original) THEN FirstNamed(vault, ref.path) ELSE NoFile
  ELSE IF n = 2 THEN FileAtPath(vault, ref.path)
  ELSE IF n = 3
  THEN IF folder # "none" THEN FileAtPath(vault, folder \o "/" \o ref.path) ELSE NoFile
  ELSE FirstNamed(vault, Basename(ref.path))

\* processMarkdown: 'if (!mediaFile)' before each further strategy
Resolve(ref, vault, folder) ==
  IF Strategy(1, ref, vault, folder) # NoFile
  THEN [strategy |-> 1, file |-> Strategy(1, ref, vault, folder)]
  ELSE IF Strategy(2, ref, vault, folder) # NoFile
  THEN [strategy |-> 2, file |-> Strategy(2, ref, vault, folder)]
  ELSE IF Strategy(3, ref, vault, folder) # NoFile
  THEN [strategy |-> 3, file |-> Strategy(3, ref, vault, folder)]
  ELSE IF Strategy(4, ref, vault, folder) # NoFile
  THEN [strategy |-> 4, file |-> Strategy(4, ref, vault, folder)]
  ELSE [strategy |-> 0, file |-> NoFile]

\* `${this.targetPath}/${fileName}`.replace(/\/+/g, '/') with the media
\* target path of DEFAULT_SETTINGS
MediaTargetPath(fileName) == "public/images/" \o fileName

\* original.replace(/src="[^"]+"/, `src="${newPath}"`)
ReplaceSrc(original, newPath) ==
  LET at == {i \in 1..Len(original) :
               /\ original[i] = " src=\""
               /\ \E q \in (i + 2)..Len(original) :
                    /\ original[q] \in QuoteTokens
                    /\ \A k \in (i + 1)..(q - 1) : original[k] \notin QuoteTokens}
  IN  IF at = {} THEN original
      ELSE LET i == Least(at)
               q == Least({x \in (i + 2)..Len(original) : original[x] \in QuoteTokens})
           IN  SubSeq(original, 1, i) \o <<newPath>> \o SubSeq(original, q, Len(original))

createNewReference(ref, newPath) ==
  IF StartsWithEmbed(ref.original) THEN <<"!", "[", ref.alt, "]", "(", newPath, ")">>
  ELSE IF StartsWithImage(ref.original) THEN <<"!", "[", ref.alt, "]", "(", newPath, ")">>
  ELSE IF StartsWithImg(ref.original) THEN ReplaceSrc(ref.original, newPath)
  ELSE <<"!", "[", ref.alt, "]", "(", newPath, ")">>

\* processedContent.replace(ref.original, newReference): the first occurrence
ReplaceFirst(c, original, newReference) ==
  LET n == Len(original)
      at == {i \in 1..(Len(c) - n + 1) : SubSeq(c, i, i + n - 1) = original}
  IN  IF at = {} THEN c
      ELSE SubSeq(c, 1, Least(at) - 1) \o newReference
             \o SubSeq(c, Least(at) + n, Len(c))

(***************************************************************************)
(* processMarkdown on its own: a note text, a vault, an active file and    *)
(* the outcome of reading each vault file are drawn; the references are    *)
(* extracted and then processed one by one.                                *)
(***************************************************************************)
EmbedPiece(p) == <<"!", "[", "[", p, "]", "]">>
ImagePiece(alt, p) == <<"!", "[", alt, "]", "(", p, ")">>
ImgPiece(p, alt) == <<"<img", " src=\"", p, "\"", " alt=\"", alt, "\"", ">">>

\* what a note's text is made of: references of the three formats, plain
\* text and line breaks
Pieces ==
  { [kind |-> "obsidian", text |-> EmbedPiece("a.png")],
    [kind |-> "markdown", text |-> ImagePiece("b", "a.png")],
    [kind |-> "markdown", text |-> ImagePiece("b", "img/a.png")],
    [kind |-> "markdown", text |-> ImagePiece("b", "https://x/c.png")],
    [kind |-> "img", text |-> ImgPiece("b.png", "e")],
    [kind |-> "text", text |-> <<"t">>],
    [kind |-> "text", text |-> <<"\n">>] }

\* vault.getFiles(), in the order the vault lists them
Vaults ==
  { <<>>, <<"a.png">>, <<"b.png">>, <<"img/a.png">>, <<"notes/a.png">>,
    <<"img/a.png", "a.png">>, <<"a.png", "img/a.png">>, <<"a.png", "notes/a.png">> }

\* activeFile.parent.path: no active file, a note at the vault's root, a note
\* in the folder notes
ActiveFolders == {"none", "/", "notes"}

\* what vault.readBinary does for a file: it returns bytes, returns no
\* bytes, or throws
ReadOutcomes == {"ok", "empty", "error"}

MediaInit ==
  /\ settings = loadSettings("ghp_x", <<DefaultRepo>>, TRUE)
  /\ settingsTab = [open |-> FALSE, presetOptions |-> <<>>]
  /\ modals = <<>>
  /\ runs = <<>>
  /\ remote = InitialRemote(<<DefaultRepo>>)
  /\ variant = "current"
  /\ lastEntry = NoEntry
  /\ tpl = NoTpl
  /\ \E pieces \in SeqsUpTo(Pieces, MaxPieces), vault \in Vaults,
        folder \in ActiveFolders :
       \E reads \in [Range(vault) -> ReadOutcomes] :
         mh = [pc |-> "start", pieces |-> pieces,
               content |-> Flatten([i \in 1..Len(pieces) |-> pieces[i].text]),
               vault |-> vault, folder |-> folder, reads |-> reads,
               references |-> <<>>, next |-> 1,
               processedContent |-> <<>>, mediaFiles |-> <<>>,
               successCount |-> 0, failureCount |-> 0, log |-> <<>>]

\* processMarkdown up to its loop: extractMediaReferences, and the return
\* when there is no reference
StartProcessing ==
  /\ mh.pc = "start"
  /\ LET references == extractMediaReferences(mh.content)
     IN  mh' = [mh EXCEPT !.references = references,
                          !.processedContent = mh.content,
                          !.pc = IF references = <<>> THEN "done" ELSE "loop"]
  /\ UNCHANGED <<settings, settingsTab, modals, runs, remote, variant, lastEntry, tpl>>

\* every file taken as read
UsableAlways(reads, file) == TRUE

\* vault.readBinary(mediaFile) returned, and base64Content.length is not 0
Usable(reads, file) == reads[file] = "ok"

\* one iteration of 'for (const ref of references)'
ProcessOne(m, ref) ==
  IF IsExternal(ref.path)
  THEN [m EXCEPT !.log = Append(@, [result |-> "external", strategy |-> 0, file |-> NoFile])]
  ELSE LET found == Resolve(ref, m.vault, m.folder)
           entry == [result |-> "", strategy |-> found.strategy, file |-> found.file]
       IN  IF found.file = NoFile
           THEN [m EXCEPT !.failureCount = @ + 1,
                          !.log = Append(@, [entry EXCEPT !.result = "notFound"])]
           ELSE IF ~Usable(m.reads, found.file)
           THEN [m EXCEPT !.failureCount = @ + 1,
                          !.log = Append(@, [entry EXCEPT !.result =
                                    IF m.reads[found.file] = "error" THEN "readError"
                                    ELSE "emptyContent"])]
           ELSE LET targetPath == MediaTargetPath(Basename(found.file))
                IN  [m EXCEPT
                       !.mediaFiles = Append(@, [targetPath |-> targetPath,
                                                 content |-> "base64"]),
                       !.successCount = @ + 1,
                       !.processedContent =
                         ReplaceFirst(@, ref.original,
                                      createNewReference(ref, "/" \o targetPath)),
                       !.log = Append(@, [entry EXCEPT !.result = "added"])]

\* the loop takes its next reference; after the last one processMarkdown
\* returns { content: processedContent, mediaFiles }
ProcessReference ==
  /\ mh.pc = "loop"
  /\ LET m == ProcessOne(mh, mh.references[mh.next])
     IN  mh' = [m EXCEPT !.next = @ + 1,
                         !.pc = IF mh.next = Len(mh.references) THEN "done" ELSE "loop"]
  /\ UNCHANGED <<settings, settingsTab, modals, runs, remote, variant, lastEntry, tpl>>

MediaNext == StartProcessing \/ ProcessReference

MediaSpec == MediaInit /\ [][MediaNext]_vars

(***************************************************************************)
(* The claims about MediaHandler, checked under MediaSpec.                 *)
(***************************************************************************)
\* C14: extractMediaReferences returns one reference for each embed, each
\* markdown image and each img tag of the content, with original equal to
\* that reference's text, all embeds first, then all markdown images, then
\* all img tags, and nothing else.
C14_OneReferencePerTag ==
  mh.pc \in {"loop", "done"} =>
    LET TextsOf(kind) ==
          LET of == SelectSeq(mh.pieces, LAMBDA piece : piece.kind = kind)
          IN  [i \in 1..Len(of) |-> of[i].text]
    IN  [i \in 1..Len(mh.references) |-> mh.references[i].original]
          = TextsOf("obsidian") \o TextsOf("markdown") \o TextsOf("img")

\* C15: a reference that is not external is resolved to the file the first
\* of these finds: (1) for Obsidian embeds only, the first vault file named
\* like the reference path; (2) the vault file at the reference path;
\* (3) with an active file, the vault file at <its folder>/<reference path>;
\* (4) the first vault file named like the basename of the reference path.
\* It is not found only when all of them miss.
C15_ResolutionOrder ==
  mh.pc \in {"loop", "done"} =>
    \A i \in 1..Len(mh.log) :
      LET ref == mh.references[i]
          Hit(n) ==
            IF n = 1 THEN IF ref.via = "obsidian" THEN FirstNamed(mh.vault, ref.path)
                          ELSE NoFile
            ELSE IF n = 2 THEN FileAtPath(mh.vault, ref.path)
            ELSE IF n = 3 THEN IF mh.folder # "none"
                               THEN FileAtPath(mh.vault, mh.folder \o "/" \o ref.path)
                               ELSE NoFile
            ELSE FirstNamed(mh.vault, Basename(ref.path))
          hits == {n \in 1..4 : Hit(n) # NoFile}
      IN  ~IsExternal(ref.path) =>
            IF hits = {} THEN mh.log[i].result = "notFound"
            ELSE /\ mh.log[i].result # "notFound"
                 /\ mh.log[i].file = Hit(Least(hits))

\* C16: processing a reference whose path starts with 'http://' or
\* 'https://' adds no media file, does not touch the content and counts
\* neither a success nor a failure, and the loop goes on; the text of every
\* external image of the note is in the returned content as often as it
\* was in the note.
C16_ExternalSkipped ==
  /\ [][ /\ mh.pc = "loop" /\ mh' # mh
         /\ mh.references[mh.next].path \in {"https://x/c.png", "http://x/c.png"}
         => /\ mh'.mediaFiles = mh.mediaFiles
            /\ mh'.processedContent = mh.processedContent
            /\ mh'.failureCount = mh.failureCount
            /\ mh'.successCount = mh.successCount
            /\ mh'.next = mh.next + 1 ]_vars
  /\ [](mh.pc = "done" =>
          \A k \in 1..Len(mh.pieces) :
            LET text == mh.pieces[k].text
                Count(c) == Cardinality({i \in 1..(Len(c) - Len(text) + 1) :
                                           SubSeq(c, i, i + Len(text) - 1) = text})
            IN  text = ImagePiece("b", "https://x/c.png") =>
                  Count(mh.processedContent) = Count(mh.content))

\* C16's case: processMarkdown returned after it skipped an external
\* reference and rewrote another one
C16_Witness ==
  /\ mh.pc = "done"
  /\ \E i, j \in 1..Len(mh.log) :
       mh.log[i].result = "external" /\ mh.log[j].result = "added"
  /\ mh.processedContent # mh.content

\* C17: processing a reference that is not resolved, whose file cannot be
\* read or whose content is empty adds no media file and does not touch the
\* content, and the loop goes on to the next reference; processMarkdown
\* returns only after it processed every reference.
C17_FailureSkipped ==
  /\ [][ /\ mh.pc = "loop" /\ mh' # mh
         /\ mh.references[mh.next].path \notin {"https://x/c.png", "http://x/c.png"}
         /\ LET file == Resolve(mh.references[mh.next], mh.vault, mh.folder).file
            IN  file = NoFile \/ mh.reads[file] # "ok"
         => /\ mh'.mediaFiles = mh.mediaFiles
            /\ mh'.processedContent = mh.processedContent
            /\ mh'.successCount = mh.successCount
            /\ mh'.failureCount = mh.failureCount + 1
            /\ mh'.next = mh.next + 1
            /\ mh'.pc = IF mh.next = Len(mh.references) THEN "done" ELSE "loop" ]_vars
  /\ [](/\ mh.pc = "loop" => mh.next <= Len(mh.references)
        /\ mh.pc = "done" => Len(mh.log) = Len(mh.references))

\* C17's case: processMarkdown returned after a reference failed and a later
\* one was added
C17_Witness ==
  /\ mh.pc = "done"
  /\ \E i, j \in 1..Len(mh.log) :
       /\ i < j
       /\ mh.log[i].result \in {"notFound", "readError", "emptyContent"}
       /\ mh.log[j].result = "added"
  /\ Len(mh.mediaFiles) = 1

====
